---- MODULE Spec2Model ----
(***************************************************************************)
(* math-avg-service: the per-device sliding window average of main.go.     *)
(*                                                                         *)
(* Strings that the code takes apart (the three configuration strings, the *)
(* topics and the window-size entries) are sequences of one-character      *)
(* strings.  Slices are functions over 0..len-1, as the code indexes them. *)
(* A float64 is a record: a finite value is an exact reduced fraction, so  *)
(* the arithmetic is that of IEEE-754 doubles wherever the doubles are     *)
(* exact (small integers and their quotients), plus NaN and the two        *)
(* infinities.                                                             *)
(***************************************************************************)
EXTENDS Integers, Sequences, FiniteSets, TLC

VARIABLES
    config,      \* ctrl.Config(): the three configuration strings of the device
    phase,       \* device lifecycle: "new", "linked", "unlinked"
    outtopics,   \* Device.outtopics
    lastvalues,  \* Device.lastvalues
    nextindex,   \* Device.nextindex
    subscribed,  \* the ctrl.Subscribe calls made for this device, in order
    published,   \* the ctrl.Publish calls made for this device, in order
    lastCall,    \* the handler that ran last, with its arguments and result
    accepted,    \* history: the <<key, value>> of every sample that parsed
    budget,      \* messages the transport will still deliver
    nlinks,      \* number of ProcessLink calls made so far
    firstLink,   \* history: what the first ProcessLink call produced
    str,         \* commaList: the argument
    elements,    \* commaList: the result
    clpc,        \* commaList: "idle", "ready" (argument chosen), "done"
    calls,       \* the ProcessMessage calls started, in delivery order, each
                 \* with its position in the handler and its local variables
    serial       \* whether the transport delivers the messages of one
                 \* channel one after the other

vars == <<config, phase, outtopics, lastvalues, nextindex, subscribed,
          published, lastCall, accepted, budget, nlinks, firstLink,
          str, elements, clpc, calls, serial>>

devVars == <<outtopics, lastvalues, nextindex>>
clVars == <<str, elements, clpc>>
concVars == <<calls, serial>>

---------------------------------------------------------------------------
(* Bounds of the exploration *)

\* messages delivered to a device with a single channel
MaxMsgs == 4
\* messages delivered to a device of the link configurations
MaxLinkMsgs == 2
\* ProcessLink calls in one behaviour
MaxLinks == 2
\* messages delivered to a device that is linked more than once in place
MaxRelinkMsgs == 1
\* length of the strings handed to commaList
MaxStrLen == 4
\* messages delivered by a transport that may tag them with any key
MaxAnyKeyMsgs == 2
\* ProcessMessage calls started when the calls of a device run concurrently
\* and the transport serializes the messages of each channel
MaxConcCalls == 4
\* ProcessMessage calls started when the transport serializes nothing
MaxRaceCalls == 2

---------------------------------------------------------------------------
(* float64 *)

RECURSIVE GCD(_, _)
GCD(a, b) ==
    IF b = 0 THEN a ELSE GCD(b, a % b)

Abs(x) ==
    IF x < 0 THEN -x ELSE x

\* the finite value n/d (d > 0), reduced
Fin(n, d) ==
    LET g == GCD(Abs(n), d)
    IN [cls |-> "fin", num |-> n \div g, den |-> d \div g]

NaN ==
    [cls |-> "nan", num |-> 0, den |-> 1]

\* math.Inf(sign)
Inf(sign) ==
    [cls |-> "inf", num |-> sign, den |-> 1]

IsNaN(v) ==
    v.cls = "nan"

\* a + b on float64
FAdd(a, b) ==
    CASE IsNaN(a) \/ IsNaN(b) -> NaN
      [] a.cls = "inf" /\ b.cls = "inf" -> IF a.num = b.num THEN a ELSE NaN
      [] a.cls = "inf" -> a
      [] b.cls = "inf" -> b
      [] OTHER -> Fin(a.num * b.den + b.num * a.den, a.den * b.den)

\* sum / float64(count), count >= 0
FDivCount(sum, count) ==
    CASE IsNaN(sum) -> NaN
      [] sum.cls = "inf" -> sum
      [] count = 0 /\ sum.num = 0 -> NaN
      [] count = 0 /\ sum.num > 0 -> Inf(1)
      [] count = 0 /\ sum.num < 0 -> Inf(-1)
      [] OTHER -> Fin(sum.num, sum.den * count)

---------------------------------------------------------------------------
(* strings *)

\* strings.Replace(s, " ", "", -1)
RECURSIVE ReplaceSpaces(_)
ReplaceSpaces(s) ==
    IF s = <<>> THEN <<>>
    ELSE IF Head(s) = " " THEN ReplaceSpaces(Tail(s))
    ELSE <<Head(s)>> \o ReplaceSpaces(Tail(s))

\* strings.Index(s, ","): 0-based position of the first comma, -1 if none
RECURSIVE IndexComma(_)
IndexComma(s) ==
    IF s = <<>> THEN -1
    ELSE IF Head(s) = "," THEN 0
    ELSE LET r == IndexComma(Tail(s))
         IN IF r = -1 THEN -1 ELSE r + 1

\* strings.Split(s, ","): always at least one element
RECURSIVE Split(_)
Split(s) ==
    LET k == IndexComma(s)
    IN IF k = -1 THEN <<s>>
       ELSE <<SubSeq(s, 1, k)>> \o Split(SubSeq(s, k + 2, Len(s)))

commaListNoEmptyCase(s) ==
    Split(ReplaceSpaces(s))

commaList(s) ==
    LET nospacestr == ReplaceSpaces(s)
        elems == Split(nospacestr)
    IN IF Len(elems) = 1 /\ Len(elems[1]) = 0 THEN <<>> ELSE elems

Digits ==
    {"0", "1", "2", "3", "4", "5", "6", "7", "8", "9"}

DigitVal(c) ==
    CASE c = "0" -> 0 [] c = "1" -> 1 [] c = "2" -> 2 [] c = "3" -> 3
      [] c = "4" -> 4 [] c = "5" -> 5 [] c = "6" -> 6 [] c = "7" -> 7
      [] c = "8" -> 8 [] c = "9" -> 9

\* the magnitude of a digit string, as far as int32 needs it: the value when
\* it is at most 2^31 - 1, -2 when it is exactly 2^31, -1 when it is larger
RECURSIVE DecVal(_, _)
DecVal(s, acc) ==
    IF s = <<>> THEN acc
    ELSE LET c == DigitVal(Head(s))
         IN IF acc < 0 \/ acc > 214748364 THEN DecVal(Tail(s), -1)
            ELSE IF acc = 214748364 /\ c = 8 THEN DecVal(Tail(s), -2)
            ELSE IF acc = 214748364 /\ c = 9 THEN DecVal(Tail(s), -1)
            ELSE DecVal(Tail(s), acc * 10 + c)

\* strconv.ParseInt(s, 10, 32): an optional sign, then one or more decimal
\* digits; a value outside int32 is a range error
ParseInt(s) ==
    LET signed == s # <<>> /\ Head(s) \in {"+", "-"}
        body == IF signed THEN Tail(s) ELSE s
        neg == signed /\ Head(s) = "-"
    IN IF body = <<>> \/ \E j \in 1..Len(body) : body[j] \notin Digits
       THEN [ok |-> FALSE, val |-> 0]
       ELSE LET mag == DecVal(body, 0)
            IN IF mag = -1 \/ (mag = -2 /\ ~neg)
               THEN [ok |-> FALSE, val |-> IF neg THEN -2147483647 - 1 ELSE 2147483647]
               ELSE IF mag = -2 THEN [ok |-> TRUE, val |-> -2147483647 - 1]
               ELSE [ok |-> TRUE, val |-> IF neg THEN -mag ELSE mag]

---------------------------------------------------------------------------
(* Device *)

defaultWindowSize == 2

defaultOutputTopicSuffixDiff ==
    <<"_", "d", "i", "f", "f">>

defaultOutputTopicSuffix ==
    <<"_", "a", "v", "g">>

\* the slice of n elements, each v
Arr(n, v) ==
    [j \in 0..(n - 1) |-> v]

\* len of a slice
SliceLen(a) ==
    Cardinality(DOMAIN a)

\* append(a, b...)
ArrCat(a, b) ==
    [j \in 0..(SliceLen(a) + SliceLen(b) - 1) |->
        IF j < SliceLen(a) THEN a[j] ELSE b[j - SliceLen(a)]]

\* new(Device)
NewDevice ==
    [outtopics |-> Arr(0, <<>>), lastvalues |-> Arr(0, <<>>), nextindex |-> Arr(0, 0)]

addLastValueNoAdvance(d, topicIndex, value) ==
    [d EXCEPT !.lastvalues[topicIndex][d.nextindex[topicIndex]] = value]

addLastValueAppend(d, topicIndex, value) ==
    LET nextIndex == d.nextindex[topicIndex]
    IN [d EXCEPT !.lastvalues[topicIndex] = ArrCat(@, Arr(1, value)),
                 !.nextindex[topicIndex] =
                     (nextIndex + 1) % SliceLen(d.lastvalues[topicIndex])]

addLastValueSharedCursor(d, topicIndex, value) ==
    LET nextIndex == d.nextindex[0]
    IN [d EXCEPT !.lastvalues[topicIndex][nextIndex] = value,
                 !.nextindex[0] =
                     (nextIndex + 1) % SliceLen(d.lastvalues[topicIndex])]

addLastValueWrapLate(d, topicIndex, value) ==
    LET nextIndex == d.nextindex[topicIndex]
    IN [d EXCEPT !.lastvalues[topicIndex][nextIndex] = value,
                 !.nextindex[topicIndex] =
                     (nextIndex + 1) % (SliceLen(d.lastvalues[topicIndex]) + 1)]

addLastValueWriteAfterAdvance(d, topicIndex, value) ==
    LET nextIndex == (d.nextindex[topicIndex] + 1) %
                         SliceLen(d.lastvalues[topicIndex])
    IN [d EXCEPT !.lastvalues[topicIndex][nextIndex] = value,
                 !.nextindex[topicIndex] = nextIndex]

addLastValue(d, topicIndex, value) ==
    LET nextIndex == d.nextindex[topicIndex]
    IN [d EXCEPT !.lastvalues[topicIndex][nextIndex] = value,
                 !.nextindex[topicIndex] =
                     (nextIndex + 1) % SliceLen(d.lastvalues[topicIndex])]

\* the range loop of calculateAverage from slot j on: the sum and the count
RECURSIVE averageLoop(_, _, _, _)
averageLoop(vals, j, count, sum) ==
    IF j >= SliceLen(vals) THEN [count |-> count, sum |-> sum]
    ELSE IF IsNaN(vals[j]) THEN averageLoop(vals, j + 1, count - 1, sum)
    ELSE averageLoop(vals, j + 1, count, FAdd(sum, vals[j]))

calculateAverageFullWindow(d, topicIndex) ==
    LET r == averageLoop(d.lastvalues[topicIndex], 0, 0, Fin(0, 1))
    IN FDivCount(r.sum, SliceLen(d.lastvalues[topicIndex]))

calculateAverage(d, topicIndex) ==
    LET r == averageLoop(d.lastvalues[topicIndex], 0,
                         SliceLen(d.lastvalues[topicIndex]), Fin(0, 1))
    IN FDivCount(r.sum, r.count)

---------------------------------------------------------------------------
(* ProcessLink *)

\* the output topic of channel i (inputTopics[i] of the code is inputTopics[i + 1])
outtopicFor(inputTopics, outputTopics, i) ==
    IF i < Len(outputTopics)
    THEN outputTopics[i + 1]
    ELSE inputTopics[i + 1] \o defaultOutputTopicSuffix

winsizeForOffByOne(val) ==
    IF val > 1 THEN val ELSE defaultWindowSize

\* the window size for a parsed entry
winsizeFor(val) ==
    IF val > 0 THEN val ELSE defaultWindowSize

linkChannelZeroFill(st, intopic, i, winsize) ==
    [st EXCEPT !.d.lastvalues[i] = Arr(winsize, Fin(0, 1)),
               !.subscribed = Append(@, [topic |-> intopic, key |-> i])]

\* the rest of the loop body once winsize is known: the window, all NaN, and
\* the subscription
linkChannel(st, intopic, i, winsize) ==
    [st EXCEPT !.d.lastvalues[i] = Arr(winsize, NaN),
               !.subscribed = Append(@, [topic |-> intopic, key |-> i])]

\* the loop of ProcessLink from index i on; oread and wread collect the
\* indices at which outputTopics and windowSizes are read
RECURSIVE linkLoop(_, _, _, _, _)
linkLoop(inputTopics, outputTopics, windowSizes, i, st) ==
    IF i >= Len(inputTopics) THEN [st EXCEPT !.ret = "Success"]
    ELSE LET intopic == inputTopics[i + 1]
             st1 == [st EXCEPT
                        !.d.outtopics[i] = outtopicFor(inputTopics, outputTopics, i),
                        !.oread = IF i < Len(outputTopics) THEN @ \cup {i} ELSE @]
         IN IF i < Len(windowSizes)
            THEN LET p == ParseInt(windowSizes[i + 1])
                     st2 == [st1 EXCEPT !.wread = @ \cup {i}]
                 IN IF ~p.ok
                    THEN [st2 EXCEPT !.ret = "Failed to parse WindowSize"]
                    ELSE linkLoop(inputTopics, outputTopics, windowSizes, i + 1,
                                  linkChannel(st2, intopic, i, winsizeFor(p.val)))
            ELSE linkLoop(inputTopics, outputTopics, windowSizes, i + 1,
                          linkChannel(st1, intopic, i, defaultWindowSize))

ProcessLinkAppend(d, cfg, subs) ==
    LET inputTopics == commaList(cfg.InputTopics)
        n == Len(inputTopics)
        st == linkLoop(inputTopics, commaList(cfg.OutputTopics),
                       commaList(cfg.WindowSizes), 0,
                       [d |-> [outtopics |-> Arr(n, <<>>),
                               lastvalues |-> Arr(n, Arr(0, NaN)),
                               nextindex |-> Arr(n, 0)],
                        subscribed |-> subs, ret |-> "",
                        oread |-> {}, wread |-> {}])
    IN [st EXCEPT !.d = [outtopics |-> ArrCat(d.outtopics, st.d.outtopics),
                         lastvalues |-> ArrCat(d.lastvalues, st.d.lastvalues),
                         nextindex |-> ArrCat(d.nextindex, st.d.nextindex)]]

\* Device.ProcessLink on device d with configuration cfg; subs are the
\* subscriptions made before the call
ProcessLink(d, cfg, subs) ==
    LET inputTopics == commaList(cfg.InputTopics)
        outputTopics == commaList(cfg.OutputTopics)
        windowSizes == commaList(cfg.WindowSizes)
        n == Len(inputTopics)
        d0 == [outtopics |-> Arr(n, <<>>),
               lastvalues |-> Arr(n, Arr(0, NaN)),
               nextindex |-> Arr(n, 0)]
    IN linkLoop(inputTopics, outputTopics, windowSizes, 0,
                [d |-> d0, subscribed |-> subs, ret |-> "",
                 oread |-> {}, wread |-> {}])

---------------------------------------------------------------------------
(* ProcessMessage *)

\* the payloads the transport delivers
Payloads ==
    {"10", "20", "30", "40", "NaN", "notanumber"}

\* strconv.ParseFloat(payload, 64) on those payloads
ParseFloat(payload) ==
    CASE payload = "10" -> [ok |-> TRUE, value |-> Fin(10, 1)]
      [] payload = "20" -> [ok |-> TRUE, value |-> Fin(20, 1)]
      [] payload = "30" -> [ok |-> TRUE, value |-> Fin(30, 1)]
      [] payload = "40" -> [ok |-> TRUE, value |-> Fin(40, 1)]
      [] payload = "NaN" -> [ok |-> TRUE, value |-> NaN]
      [] payload = "+Inf" -> [ok |-> TRUE, value |-> Inf(1)]
      [] payload = "-Inf" -> [ok |-> TRUE, value |-> Inf(-1)]
      [] OTHER -> [ok |-> FALSE, value |-> Fin(0, 1)]

publishAverageStale(d, pubs, index, value) ==
    [d |-> addLastValue(d, index, value),
     published |-> Append(pubs, [topic |-> d.outtopics[index],
                                 avg |-> calculateAverage(d, index)])]

\* the part of ProcessMessage after the payload parsed
publishAverage(d, pubs, index, value) ==
    LET d1 == addLastValue(d, index, value)
        avg == calculateAverage(d1, index)
    IN [d |-> d1,
        published |-> Append(pubs, [topic |-> d.outtopics[index], avg |-> avg])]

ProcessMessageIgnoreErr(d, pubs, index, payload) ==
    LET d1 == addLastValue(d, index, ParseFloat(payload).value)
    IN [d |-> d1,
        published |-> Append(pubs, [topic |-> d.outtopics[index],
                                    avg |-> calculateAverage(d1, index)])]

\* Device.ProcessMessage for the message with key index and the given
\* payload; pubs are the publications made before the call.  The avg of a
\* publication is the float64 handed to utils.FormatFloat64.
ProcessMessage(d, pubs, index, payload) ==
    LET r == ParseFloat(payload)
    IN IF ~r.ok THEN [d |-> d, published |-> pubs]
       ELSE publishAverage(d, pubs, index, r.value)

\* the index expressions of addLastValue that panic (index out of range):
\* d.nextindex[topicIndex], then d.lastvalues[topicIndex][nextIndex]
addLastValuePanics(d, topicIndex) ==
    \/ topicIndex \notin DOMAIN d.nextindex
    \/ topicIndex \notin DOMAIN d.lastvalues
    \/ d.nextindex[topicIndex] \notin DOMAIN d.lastvalues[topicIndex]

ProcessMessageDropOutOfRange(d, pubs, index, payload) ==
    LET r == ParseFloat(payload)
    IN IF ~r.ok \/ addLastValuePanics(d, index)
       THEN [d |-> d, published |-> pubs, panic |-> FALSE]
       ELSE LET s == publishAverage(d, pubs, index, r.value)
            IN [d |-> s.d, published |-> s.published, panic |-> FALSE]

\* Device.ProcessMessage for a message with any integer key: the call panics
\* where addLastValue indexes out of range, before it has written anything
ProcessMessageAnyKey(d, pubs, index, payload) ==
    LET r == ParseFloat(payload)
    IN IF ~r.ok THEN [d |-> d, published |-> pubs, panic |-> FALSE]
       ELSE IF addLastValuePanics(d, index)
       THEN [d |-> d, published |-> pubs, panic |-> TRUE]
       ELSE LET s == publishAverage(d, pubs, index, r.value)
            IN [d |-> s.d, published |-> s.published, panic |-> FALSE]

readCursorZero(d, topicIndex) ==
    0

\* addLastValue, first statement: nextIndex := d.nextindex[topicIndex]
readCursor(d, topicIndex) ==
    d.nextindex[topicIndex]

\* addLastValue, second statement: the sample goes to slot nextIndex
writeSlot(d, topicIndex, nextIndex, value) ==
    [d EXCEPT !.lastvalues[topicIndex][nextIndex] = value]

storeCursorShared(d, topicIndex, nextIndex) ==
    [d EXCEPT !.nextindex[0] =
                  (nextIndex + 1) % SliceLen(d.lastvalues[topicIndex])]

\* addLastValue, third statement: the cursor becomes nextIndex + 1 modulo
\* the window length
storeCursor(d, topicIndex, nextIndex) ==
    [d EXCEPT !.nextindex[topicIndex] =
                  (nextIndex + 1) % SliceLen(d.lastvalues[topicIndex])]

---------------------------------------------------------------------------
(* The configurations a device is linked with *)

Cfg(i, o, w) ==
    [InputTopics |-> i, OutputTopics |-> o, WindowSizes |-> w]

\* one channel "a" with window 1, 2 (the default) and 3
WindowConfigs ==
    {Cfg(<<"a">>, <<>>, w) : w \in {<<"1">>, <<>>, <<"3">>}}

\* "", "x", "x,y", "x, y"
InputStrs ==
    {<<>>, <<"x">>, <<"x", ",", "y">>, <<"x", ",", " ", "y">>}

\* "", "t", "t,u,v"
OutputStrs ==
    {<<>>, <<"t">>, <<"t", ",", "u", ",", "v">>}

\* "", "3", "0", "-1", "z", "3,z", "1, 3", "2147483648"
WindowStrs ==
    {<<>>, <<"3">>, <<"0">>, <<"-", "1">>, <<"z">>, <<"3", ",", "z">>,
     <<"1", ",", " ", "3">>,
     <<"2", "1", "4", "7", "4", "8", "3", "6", "4", "8">>}

LinkConfigs ==
    {Cfg(i, o, w) : i \in InputStrs, o \in OutputStrs, w \in WindowStrs}

\* the strings commaList is applied to
CLAlphabet ==
    {"a", "b", ",", " "}

CLExample ==
    <<"a", ",", " ", "b", ",", "c">>

CLStrings ==
    UNION {[1..n -> CLAlphabet] : n \in 0..MaxStrLen} \cup {CLExample}

---------------------------------------------------------------------------
(* The state machine *)

D ==
    [outtopics |-> outtopics, lastvalues |-> lastvalues, nextindex |-> nextindex]

\* what a ProcessLink call produced: the output topics, the window lengths
\* and the status
LinkSummary(st) ==
    [outtopics |-> st.d.outtopics,
     winlens |-> [i \in DOMAIN st.d.lastvalues |-> SliceLen(st.d.lastvalues[i])],
     ret |-> st.ret]

InitDevice ==
    /\ phase = "new"
    /\ outtopics = NewDevice.outtopics
    /\ lastvalues = NewDevice.lastvalues
    /\ nextindex = NewDevice.nextindex
    /\ subscribed = <<>>
    /\ published = <<>>
    /\ accepted = <<>>
    /\ lastCall = [op |-> "NewDevice"]
    /\ nlinks = 0
    /\ firstLink = <<>>
    /\ calls = <<>>

Init ==
    /\ \/ config \in WindowConfigs /\ budget = MaxMsgs
       \/ config \in LinkConfigs /\ budget = MaxLinkMsgs
    /\ InitDevice
    /\ serial = TRUE
    /\ str = <<>> /\ elements = <<>> /\ clpc = "idle"

\* the framework calls ProcessLink with the device's configuration
DoLink ==
    /\ nlinks < MaxLinks
    /\ LET st == ProcessLink(D, config, subscribed)
       IN /\ outtopics' = st.d.outtopics
          /\ lastvalues' = st.d.lastvalues
          /\ nextindex' = st.d.nextindex
          /\ subscribed' = st.subscribed
          /\ lastCall' = [op |-> "ProcessLink", ret |-> st.ret,
                          oread |-> st.oread, wread |-> st.wread,
                          prior |-> Len(accepted)]
          /\ firstLink' = IF firstLink = <<>> THEN <<LinkSummary(st)>> ELSE firstLink
    /\ phase' = "linked"
    /\ nlinks' = nlinks + 1
    /\ accepted' = <<>>
    /\ UNCHANGED <<config, published, budget, clVars, concVars>>

Link ==
    /\ phase = "new"
    /\ DoLink

\* ProcessLink called again on a device that is already linked
Relink ==
    /\ phase = "linked"
    /\ DoLink

\* the transport delivers a message of a subscribed topic, tagged with the
\* key given to Subscribe
Deliver ==
    /\ phase = "linked"
    /\ budget > 0
    /\ \E j \in 1..Len(subscribed), payload \in Payloads :
          LET key == subscribed[j].key
              r == ProcessMessage(D, published, key, payload)
              f == ParseFloat(payload)
          IN /\ outtopics' = r.d.outtopics
             /\ lastvalues' = r.d.lastvalues
             /\ nextindex' = r.d.nextindex
             /\ published' = r.published
             /\ accepted' = IF f.ok THEN Append(accepted, <<key, f.value>>)
                            ELSE accepted
             /\ lastCall' = [op |-> "ProcessMessage", key |-> key,
                             payload |-> payload]
    /\ budget' = budget - 1
    /\ UNCHANGED <<config, phase, subscribed, nlinks, firstLink, clVars, concVars>>

\* ProcessConfigChange: returns "", false
ConfigChange ==
    /\ phase = "linked"
    /\ lastCall' = [op |-> "ProcessConfigChange", ret |-> <<"", FALSE>>]
    /\ UNCHANGED <<config, phase, devVars, subscribed, published, accepted,
                   budget, nlinks, firstLink, clVars, concVars>>

\* ProcessUnlink
Unlink ==
    /\ phase = "linked"
    /\ phase' = "unlinked"
    /\ lastCall' = [op |-> "ProcessUnlink"]
    /\ UNCHANGED <<config, devVars, subscribed, published, accepted,
                   budget, nlinks, firstLink, clVars, concVars>>

\* the framework makes a new Device for the next link
New ==
    /\ phase = "unlinked"
    /\ nlinks < MaxLinks
    /\ phase' = "new"
    /\ outtopics' = NewDevice.outtopics
    /\ lastvalues' = NewDevice.lastvalues
    /\ nextindex' = NewDevice.nextindex
    /\ subscribed' = <<>>
    /\ published' = <<>>
    /\ accepted' = <<>>
    /\ lastCall' = [op |-> "NewDevice"]
    /\ UNCHANGED <<config, budget, nlinks, firstLink, clVars, concVars>>

Next ==
    \/ Link
    \/ Deliver
    \/ ConfigChange
    \/ Unlink
    \/ New

Spec ==
    Init /\ [][Next]_vars

NextRelink ==
    \/ Next
    \/ Relink

InitRelink ==
    /\ config \in LinkConfigs
    /\ budget = MaxRelinkMsgs
    /\ InitDevice
    /\ serial = TRUE
    /\ str = <<>> /\ elements = <<>> /\ clpc = "idle"

SpecRelink ==
    InitRelink /\ [][NextRelink]_vars

\* the transport breaks its contract: a message arrives with any key from
\* -1 to the number of channels; a panic ends the process
DeliverAnyKey ==
    /\ phase = "linked"
    /\ budget > 0
    /\ \E key \in -1..SliceLen(nextindex), payload \in Payloads :
          LET r == ProcessMessageAnyKey(D, published, key, payload)
              f == ParseFloat(payload)
          IN /\ outtopics' = r.d.outtopics
             /\ lastvalues' = r.d.lastvalues
             /\ nextindex' = r.d.nextindex
             /\ published' = r.published
             /\ accepted' = IF f.ok /\ ~r.panic
                            THEN Append(accepted, <<key, f.value>>)
                            ELSE accepted
             /\ lastCall' = [op |-> "ProcessMessage", key |-> key,
                             payload |-> payload, panic |-> r.panic]
             /\ phase' = IF r.panic THEN "panicked" ELSE phase
    /\ budget' = budget - 1
    /\ UNCHANGED <<config, subscribed, nlinks, firstLink, clVars, concVars>>

NextAnyKey ==
    \/ Link
    \/ DeliverAnyKey

InitAnyKey ==
    /\ config \in LinkConfigs
    /\ budget = MaxAnyKeyMsgs
    /\ InitDevice
    /\ serial = TRUE
    /\ str = <<>> /\ elements = <<>> /\ clpc = "idle"

SpecAnyKey ==
    InitAnyKey /\ [][NextAnyKey]_vars

\* "x,y" with the windows "3" (3 and the default 2) and "1, 3"
ConcConfigs ==
    {Cfg(<<"x", ",", "y">>, <<>>, w) :
        w \in {<<"3">>, <<"1", ",", " ", "3">>}}

ConcPayloads ==
    {"10", "20", "notanumber"}

\* a ProcessMessage call that has not returned
Running(c) ==
    calls[c].pc # "done"

\* the framework starts a ProcessMessage call in a goroutine of its own; the
\* handler parses the payload and returns at once when that fails.  A
\* transport that serializes per channel starts a call only after the
\* earlier calls with the same key have returned.
Start ==
    /\ phase = "linked"
    /\ Len(calls) < IF serial THEN MaxConcCalls ELSE MaxRaceCalls
    /\ \E j \in 1..Len(subscribed), payload \in ConcPayloads :
          LET key == subscribed[j].key
              f == ParseFloat(payload)
          IN /\ serial => \A c \in 1..Len(calls) :
                              calls[c].key = key => ~Running(c)
             /\ calls' = Append(calls,
                                [pc |-> IF f.ok THEN "read" ELSE "done",
                                 ok |-> f.ok, key |-> key, value |-> f.value,
                                 nextIndex |-> 0, avg |-> NaN])
             /\ accepted' = IF f.ok THEN Append(accepted, <<key, f.value>>)
                            ELSE accepted
             /\ lastCall' = [op |-> "ProcessMessage", key |-> key,
                             payload |-> payload]
    /\ UNCHANGED <<config, phase, devVars, subscribed, published, budget,
                   nlinks, firstLink, clVars, serial>>

ReadCursor ==
    /\ \E c \in 1..Len(calls) :
          /\ calls[c].pc = "read"
          /\ calls' = [calls EXCEPT ![c].nextIndex = readCursor(D, calls[c].key),
                                    ![c].pc = "write"]
    /\ UNCHANGED <<config, phase, devVars, subscribed, published, lastCall,
                   accepted, budget, nlinks, firstLink, clVars, serial>>

WriteSlot ==
    /\ \E c \in 1..Len(calls) :
          /\ calls[c].pc = "write"
          /\ LET d1 == writeSlot(D, calls[c].key, calls[c].nextIndex,
                                 calls[c].value)
             IN /\ outtopics' = d1.outtopics
                /\ lastvalues' = d1.lastvalues
                /\ nextindex' = d1.nextindex
          /\ calls' = [calls EXCEPT ![c].pc = "store"]
    /\ UNCHANGED <<config, phase, subscribed, published, lastCall,
                   accepted, budget, nlinks, firstLink, clVars, serial>>

StoreCursor ==
    /\ \E c \in 1..Len(calls) :
          /\ calls[c].pc = "store"
          /\ LET d1 == storeCursor(D, calls[c].key, calls[c].nextIndex)
             IN /\ outtopics' = d1.outtopics
                /\ lastvalues' = d1.lastvalues
                /\ nextindex' = d1.nextindex
          /\ calls' = [calls EXCEPT ![c].pc = "avg"]
    /\ UNCHANGED <<config, phase, subscribed, published, lastCall,
                   accepted, budget, nlinks, firstLink, clVars, serial>>

ComputeAverage ==
    /\ \E c \in 1..Len(calls) :
          /\ calls[c].pc = "avg"
          /\ calls' = [calls EXCEPT ![c].avg = calculateAverage(D, calls[c].key),
                                    ![c].pc = "pub"]
    /\ UNCHANGED <<config, phase, devVars, subscribed, published, lastCall,
                   accepted, budget, nlinks, firstLink, clVars, serial>>

Publish ==
    /\ \E c \in 1..Len(calls) :
          /\ calls[c].pc = "pub"
          /\ published' = Append(published,
                                 [topic |-> outtopics[calls[c].key],
                                  avg |-> calls[c].avg])
          /\ calls' = [calls EXCEPT ![c].pc = "done"]
    /\ UNCHANGED <<config, phase, devVars, subscribed, lastCall,
                   accepted, budget, nlinks, firstLink, clVars, serial>>

NextConc ==
    \/ Link
    \/ Start
    \/ ReadCursor
    \/ WriteSlot
    \/ StoreCursor
    \/ ComputeAverage
    \/ Publish

InitConc ==
    /\ config \in ConcConfigs
    /\ budget = 0
    /\ InitDevice
    /\ serial \in BOOLEAN
    /\ str = <<>> /\ elements = <<>> /\ clpc = "idle"

SpecConc ==
    InitConc /\ [][NextConc]_vars

\* commaList applied to each string of CLStrings
InitCL ==
    /\ config = Cfg(<<>>, <<>>, <<>>)
    /\ budget = 0
    /\ InitDevice
    /\ serial = TRUE
    /\ str \in CLStrings
    /\ elements = <<>>
    /\ clpc = "ready"

CallCommaList ==
    /\ clpc = "ready"
    /\ elements' = commaList(str)
    /\ clpc' = "done"
    /\ UNCHANGED <<config, phase, devVars, subscribed, published, lastCall,
                   accepted, budget, nlinks, firstLink, str, concVars>>

NextCL ==
    CallCommaList

SpecCL ==
    InitCL /\ [][NextCL]_vars

---------------------------------------------------------------------------
(* What the claims speak of *)

\* the last handler call was a ProcessMessage whose payload parsed
LastMsgAccepted ==
    /\ lastCall.op = "ProcessMessage"
    /\ ParseFloat(lastCall.payload).ok

\* the samples accepted on channel i since the link, oldest first
RECURSIVE HistFrom(_, _)
HistFrom(i, j) ==
    IF j > Len(accepted) THEN <<>>
    ELSE IF accepted[j][1] = i THEN <<accepted[j][2]>> \o HistFrom(i, j + 1)
    ELSE HistFrom(i, j + 1)

Hist(i) ==
    HistFrom(i, 1)

NoNaN(h) ==
    \A j \in 1..Len(h) : ~IsNaN(h[j])

RECURSIVE SumOf(_)
SumOf(h) ==
    IF h = <<>> THEN Fin(0, 1) ELSE FAdd(Head(h), SumOf(Tail(h)))

\* the arithmetic mean of a non-empty sequence of samples
Mean(h) ==
    FDivCount(SumOf(h), Len(h))

\* the last n elements of h (all of h when it is shorter)
LastN(h, n) ==
    IF Len(h) <= n THEN h ELSE SubSeq(h, Len(h) - n + 1, Len(h))

LastPublished ==
    published[Len(published)]

F(n) ==
    Fin(n, 1)

\* C1: startup average.  After a sample is accepted on a channel of window
\* length n whose accepted samples so far, k < n of them, are all non-NaN,
\* the average just published is the mean of those k samples (the divisor
\* is k, not n).
C1_StartupAverage ==
    LastMsgAccepted =>
        LET i == lastCall.key
            h == Hist(i)
        IN (NoNaN(h) /\ Len(h) < SliceLen(lastvalues[i])) =>
               /\ published # <<>>
               /\ LastPublished.avg = Mean(h)

\* C1 witness: window 3, samples 10 then 20, the second publishes 15
C1_Witness ==
    /\ LastMsgAccepted
    /\ SliceLen(lastvalues[lastCall.key]) = 3
    /\ Hist(lastCall.key) = <<F(10), F(20)>>
    /\ LastPublished.avg = F(15)

\* C2: true sliding window once full.  After a sample is accepted on a
\* channel of window length n whose accepted samples, m >= n of them, are
\* all non-NaN, the average just published is the mean of the last n.
C2_SlidingWindow ==
    LastMsgAccepted =>
        LET i == lastCall.key
            h == Hist(i)
            n == SliceLen(lastvalues[i])
        IN (NoNaN(h) /\ Len(h) >= n) =>
               /\ published # <<>>
               /\ LastPublished.avg = Mean(LastN(h, n))

\* C2 witness: window 3 with 10, 20, 30, 40 has published 10, 15, 20, 30
C2_Witness ==
    /\ LastMsgAccepted
    /\ SliceLen(lastvalues[lastCall.key]) = 3
    /\ Hist(lastCall.key) = <<F(10), F(20), F(30), F(40)>>
    /\ Len(published) = 4
    /\ [j \in 1..4 |-> published[j].avg] = <<F(10), F(15), F(20), F(30)>>

\* the device right after its link: the same channels, every window empty
FreshDevice ==
    [outtopics |-> outtopics,
     lastvalues |-> [i \in DOMAIN lastvalues |->
                        Arr(SliceLen(lastvalues[i]), NaN)],
     nextindex |-> [i \in DOMAIN nextindex |-> 0]]

\* the device and the publications that the accepted samples from the j-th
\* on produce, starting from st
RECURSIVE Replay(_, _)
Replay(j, st) ==
    IF j > Len(accepted) THEN st
    ELSE Replay(j + 1, publishAverage(st.d, st.published,
                                      accepted[j][1], accepted[j][2]))

\* the last handler call was a ProcessMessage whose payload did not parse
MalformedStep ==
    /\ lastCall'.op = "ProcessMessage"
    /\ ~ParseFloat(lastCall'.payload).ok

\* C3: a malformed payload is a no-op.  A ProcessMessage whose payload does
\* not parse changes no window, no write cursor and no output topic and
\* makes no Publish call; and at every moment the windows, the cursors and
\* the publications are exactly those that the well-formed messages alone
\* produce, so the malformed ones leave no trace in any later average.
C3_MalformedIsNoOp ==
    /\ [][MalformedStep =>
            UNCHANGED <<outtopics, lastvalues, nextindex, published, subscribed>>]_vars
    /\ [](phase = "linked" =>
            Replay(1, [d |-> FreshDevice, published |-> <<>>])
                = [d |-> D, published |-> published])

\* C3 witness: on the single-channel device, linked once, a sample has just
\* been accepted after a malformed message was dropped, and there is one
\* publication per accepted sample
C3_Witness ==
    /\ config \in WindowConfigs
    /\ nlinks = 1
    /\ LastMsgAccepted
    /\ Len(accepted) < MaxMsgs - budget
    /\ Len(accepted) >= 2
    /\ Len(published) = Len(accepted)

\* the lists ProcessLink works on
InputTopicsOf(c) ==
    commaList(c.InputTopics)

OutputTopicsOf(c) ==
    commaList(c.OutputTopics)

WindowSizesOf(c) ==
    commaList(c.WindowSizes)

LastLinkSucceeded ==
    /\ lastCall.op = "ProcessLink"
    /\ lastCall.ret = "Success"

\* C4: link setup fails atomically.  When ProcessLink has returned and the
\* window-size entry of some channel index does not parse, the status is not
\* "Success", no Subscribe call has been made and no channel has a window.
C4_LinkFailsAtomically ==
    (/\ lastCall.op = "ProcessLink"
     /\ \E i \in 1..Len(WindowSizesOf(config)) :
           /\ i <= Len(InputTopicsOf(config))
           /\ ~ParseInt(WindowSizesOf(config)[i]).ok)
    => /\ lastCall.ret # "Success"
       /\ subscribed = <<>>
       /\ \A i \in DOMAIN lastvalues : SliceLen(lastvalues[i]) = 0

C6_WindowSizeMapping ==
    LastLinkSucceeded =>
        LET I == InputTopicsOf(config)
            W == WindowSizesOf(config)
        IN /\ DOMAIN lastvalues = 0..(Len(I) - 1)
           /\ \A i \in 0..(Len(I) - 1) :
                 /\ SliceLen(lastvalues[i]) =
                        IF i < Len(W) /\ ParseInt(W[i + 1]).val > 0
                        THEN ParseInt(W[i + 1]).val ELSE 2
                 /\ SliceLen(lastvalues[i]) >= 1
           /\ lastCall.wread \subseteq 0..(Len(W) - 1)

\* C6 witness: inputs "x,y" with window sizes "1, 3": windows of 1 and 3
C6_Witness ==
    /\ LastLinkSucceeded
    /\ config.WindowSizes = <<"1", ",", " ", "3">>
    /\ DOMAIN lastvalues = 0..1
    /\ SliceLen(lastvalues[0]) = 1
    /\ SliceLen(lastvalues[1]) = 3

\* a step that is a ProcessMessage whose payload parsed
AcceptedStep ==
    /\ lastCall'.op = "ProcessMessage"
    /\ ParseFloat(lastCall'.payload).ok

\* C7: one publication per accepted sample.  A ProcessMessage with a
\* well-formed payload for channel i writes the sample into the slot of
\* channel i that the cursor pointed to and adds exactly one publication,
\* on channel i's output topic, carrying the average of the window as it is
\* after that write.
C7_OnePublicationPerSample ==
    [][AcceptedStep =>
         LET i == lastCall'.key
         IN /\ lastvalues'[i][nextindex[i]] = ParseFloat(lastCall'.payload).value
            /\ published' = Append(published,
                                   [topic |-> outtopics[i],
                                    avg |-> calculateAverage(D', i)])]_vars

\* C7 witness: on a device with two channels a second sample has been
\* accepted, on channel 1, and the two publications are one on each
\* channel's topic, the last one carrying that sample
C7_Witness ==
    /\ LastMsgAccepted
    /\ DOMAIN outtopics = 0..1
    /\ outtopics[0] # outtopics[1]
    /\ lastCall.key = 1
    /\ Len(accepted) = 2
    /\ Len(published) = 2
    /\ published[1].topic = outtopics[0]
    /\ published[2].topic = outtopics[1]
    /\ published[2].avg = ParseFloat(lastCall.payload).value
    /\ ~IsNaN(published[2].avg)

\* C8: every accepted sample marks its slot valid, a NaN sample included.
\* After a sample is accepted on channel i, if a NaN sample is among the
\* samples the window of channel i holds (the last n accepted, n the window
\* length), the average just published is NaN.
C8_NaNSampleCounts ==
    LastMsgAccepted =>
        LET i == lastCall.key
            w == LastN(Hist(i), SliceLen(lastvalues[i]))
        IN (\E j \in 1..Len(w) : IsNaN(w[j])) => IsNaN(LastPublished.avg)

\* what commaList must return for s
NoSpaces(s) ==
    SelectSeq(s, LAMBDA c : c # " ")

RECURSIVE Join(_)
Join(es) ==
    IF es = <<>> THEN <<>>
    ELSE IF Len(es) = 1 THEN es[1]
    ELSE es[1] \o <<",">> \o Join(Tail(es))

\* C9: commaList.  No element of the result holds a space or a comma; the
\* elements joined by commas, in order, are the argument with its spaces
\* removed; and the result is the empty list exactly when nothing but
\* spaces was given.
C9_CommaList ==
    clpc = "done" =>
        /\ \A k \in 1..Len(elements) : \A j \in 1..Len(elements[k]) :
              elements[k][j] \notin {" ", ","}
        /\ Join(elements) = NoSpaces(str)
        /\ (elements = <<>>) <=> (\A j \in 1..Len(str) : str[j] = " ")

\* C9 witness: "a, b,c" gives ["a", "b", "c"]
C9_Witness ==
    /\ clpc = "done"
    /\ str = <<"a", ",", " ", "b", ",", "c">>
    /\ elements = << <<"a">>, <<"b">>, <<"c">> >>

\* C10: ProcessLink is deterministic and independent of the device's prior
\* state.  Whenever ProcessLink has just returned, the output topics, the
\* window lengths and the status are those of the first ProcessLink call
\* made with this configuration.
C10_LinkIsRepeatable ==
    lastCall.op = "ProcessLink" =>
        firstLink = <<[outtopics |-> outtopics,
                       winlens |-> [i \in DOMAIN lastvalues |->
                                       SliceLen(lastvalues[i])],
                       ret |-> lastCall.ret]>>

\* C10 witness: the second ProcessLink call, made on a device that had
\* accepted a sample since its first link
C10_Witness ==
    /\ lastCall.op = "ProcessLink"
    /\ nlinks = 2
    /\ lastCall.prior > 0
    /\ DOMAIN lastvalues = 0..1

\* the device is linked and its ProcessLink call returned "Success"
LinkedOK ==
    /\ phase = "linked"
    /\ firstLink # <<>>
    /\ firstLink[1].ret = "Success"

\* C11: write-cursor invariant.  On a successfully linked device each
\* channel's write cursor is a slot index of its window and equals the
\* number of samples accepted on the channel modulo the window length; and
\* each accepted sample is written at the slot the cursor pointed to before
\* the message, after which the cursor is that index plus one modulo the
\* window length.
C11_WriteCursor ==
    /\ [](LinkedOK =>
            \A i \in DOMAIN lastvalues :
               /\ 0 <= nextindex[i]
               /\ nextindex[i] < SliceLen(lastvalues[i])
               /\ nextindex[i] = Len(Hist(i)) % SliceLen(lastvalues[i]))
    /\ [][(AcceptedStep /\ LinkedOK) =>
            LET i == lastCall'.key
            IN /\ lastvalues'[i][nextindex[i]] = ParseFloat(lastCall'.payload).value
               /\ nextindex'[i] = (nextindex[i] + 1) % SliceLen(lastvalues[i])]_vars

\* C11 witness: window 3, four samples accepted, the cursor has wrapped to 1
\* and the fourth sample sits in slot 0
C11_Witness ==
    /\ LinkedOK
    /\ LastMsgAccepted
    /\ SliceLen(lastvalues[lastCall.key]) = 3
    /\ Hist(lastCall.key) = <<F(10), F(20), F(30), F(40)>>
    /\ nextindex[lastCall.key] = 1
    /\ lastvalues[lastCall.key][0] = F(40)

\* the averages that the samples h, fed alone to an empty window of n slots,
\* make calculateAverage return, one per sample
RECURSIVE AloneAvgs(_, _)
AloneAvgs(h, st) ==
    IF h = <<>> THEN <<>>
    ELSE LET st1 == addLastValue(st, 0, Head(h))
         IN <<calculateAverage(st1, 0)>> \o AloneAvgs(Tail(h), st1)

ChannelAvgs(h, n) ==
    AloneAvgs(h, [outtopics |-> Arr(1, <<>>),
                  lastvalues |-> Arr(1, Arr(n, NaN)),
                  nextindex |-> Arr(1, 0)])

\* the averages published for the samples accepted on channel i: the k-th
\* publication answers the k-th accepted sample
RECURSIVE PublishedFor(_, _)
PublishedFor(i, k) ==
    IF k > Len(accepted) \/ k > Len(published) THEN <<>>
    ELSE IF accepted[k][1] = i
         THEN <<published[k].avg>> \o PublishedFor(i, k + 1)
         ELSE PublishedFor(i, k + 1)

\* the slots of channel i whose value differs before and after the step
ChangedSlots(i) ==
    {k \in DOMAIN lastvalues[i] : lastvalues'[i][k] # lastvalues[i][k]}

\* C12: channel-local effect.  A ProcessMessage for channel i changes at most
\* one slot of channel i's window, changes no slot and no cursor of any other
\* channel, no window length and no output topic; and the averages published
\* for a channel are those its own samples give when fed alone to a window
\* of its length.
C12_ChannelLocal ==
    /\ [][lastCall'.op = "ProcessMessage" =>
            LET i == lastCall'.key
            IN /\ outtopics' = outtopics
               /\ DOMAIN lastvalues' = DOMAIN lastvalues
               /\ DOMAIN lastvalues'[i] = DOMAIN lastvalues[i]
               /\ Cardinality(ChangedSlots(i)) <= 1
               /\ \A j \in DOMAIN lastvalues \ {i} :
                     /\ lastvalues'[j] = lastvalues[j]
                     /\ nextindex'[j] = nextindex[j]]_vars
    /\ [](phase = "linked" =>
            \A j \in DOMAIN lastvalues :
               PublishedFor(j, 1) = ChannelAvgs(Hist(j), SliceLen(lastvalues[j])))

\* C12 witness: two channels, a sample accepted on channel 1 after one on
\* channel 0; channel 0 still holds its sample and its cursor, and channel 1's
\* average is its own sample
C12_Witness ==
    /\ LastMsgAccepted
    /\ lastCall.key = 1
    /\ DOMAIN lastvalues = 0..1
    /\ Hist(0) = <<F(10)>>
    /\ Hist(1) = <<F(20)>>
    /\ lastvalues[0][0] = F(10)
    /\ nextindex[0] = 1 % SliceLen(lastvalues[0])
    /\ PublishedFor(1, 1) = <<F(20)>>

\* C13: successful link registration.  When every window-size entry
\* parses, ProcessLink returns "Success" with one channel per input topic,
\* every slot of every window NaN (empty), every cursor 0, and one Subscribe
\* call per channel, in increasing index order, with the channel's input
\* topic and its index as the key.
C13_LinkRegisters ==
    (/\ lastCall.op = "ProcessLink"
     /\ \A k \in 1..Len(WindowSizesOf(config)) :
           ParseInt(WindowSizesOf(config)[k]).ok)
    => LET I == InputTopicsOf(config)
       IN /\ lastCall.ret = "Success"
          /\ DOMAIN outtopics = 0..(Len(I) - 1)
          /\ DOMAIN lastvalues = 0..(Len(I) - 1)
          /\ DOMAIN nextindex = 0..(Len(I) - 1)
          /\ \A i \in 0..(Len(I) - 1) :
                /\ SliceLen(lastvalues[i]) >= 1
                /\ \A k \in DOMAIN lastvalues[i] : IsNaN(lastvalues[i][k])
                /\ nextindex[i] = 0
          /\ Len(subscribed) = Len(I)
          /\ \A k \in 1..Len(I) :
                subscribed[k] = [topic |-> I[k], key |-> k - 1]

\* C13 witness: inputs "x, y" with window sizes "1, 3": Subscribe("x", 0),
\* then Subscribe("y", 1), and four empty slots in all
C13_Witness ==
    /\ LastLinkSucceeded
    /\ config.InputTopics = <<"x", ",", " ", "y">>
    /\ config.WindowSizes = <<"1", ",", " ", "3">>
    /\ subscribed = <<[topic |-> <<"x">>, key |-> 0], [topic |-> <<"y">>, key |-> 1]>>
    /\ lastvalues = [i \in 0..1 |-> IF i = 0 THEN Arr(1, NaN) ELSE Arr(3, NaN)]
    /\ nextindex = [i \in 0..1 |-> 0]

\* the topology of the device: its output topics and its window lengths
Topology ==
    [outtopics |-> outtopics,
     winlens |-> [i \in DOMAIN lastvalues |-> SliceLen(lastvalues[i])]]

\* C14: the topology is frozen after the link.  After a successful
\* ProcessLink, through every ProcessMessage, ProcessConfigChange and
\* ProcessUnlink, the number of channels, the window lengths and the output
\* topics are those ProcessLink left; and ProcessConfigChange and
\* ProcessUnlink change nothing of the device and make no Subscribe and no
\* Publish call.
C14_TopologyFrozen ==
    /\ []((phase \in {"linked", "unlinked"} /\ firstLink[1].ret = "Success") =>
            Topology = [outtopics |-> firstLink[1].outtopics,
                        winlens |-> firstLink[1].winlens])
    /\ [][lastCall'.op \in {"ProcessConfigChange", "ProcessUnlink"} =>
            UNCHANGED <<outtopics, lastvalues, nextindex, subscribed, published>>]_vars

\* C14 witness: the device is unlinked after its window of 3 has wrapped,
\* and still has that one window of 3
C14_Witness ==
    /\ lastCall.op = "ProcessUnlink"
    /\ firstLink[1].ret = "Success"
    /\ Len(accepted) = 4
    /\ Topology = [outtopics |-> Arr(1, <<"a", "_", "a", "v", "g">>),
                   winlens |-> Arr(1, 3)]

\* C15: an out-of-range channel index fails loudly.  A ProcessMessage whose
\* key is not the index of a channel and whose payload parses panics, and
\* the step changes no window, no cursor and no output topic and makes no
\* Publish call.
C15_OutOfRangePanics ==
    [][(/\ lastCall'.op = "ProcessMessage"
        /\ lastCall'.key \notin DOMAIN nextindex
        /\ ParseFloat(lastCall'.payload).ok)
       => /\ lastCall'.panic
          /\ phase' = "panicked"
          /\ UNCHANGED <<outtopics, lastvalues, nextindex, published>>]_vars

\* C15 witness: two channels, one sample accepted and published, then a
\* well-formed message with key 2 has panicked
C15_Witness ==
    /\ lastCall.op = "ProcessMessage"
    /\ DOMAIN nextindex = 0..1
    /\ lastCall.key = 2
    /\ ParseFloat(lastCall.payload).ok
    /\ lastCall.panic
    /\ phase = "panicked"
    /\ Len(published) = 1
    /\ Len(accepted) = 1

\* a call for channel j has not returned
InFlight(j) ==
    \E c \in 1..Len(calls) : calls[c].key = j /\ Running(c)

\* the averages published on channel j's output topic, in order
RECURSIVE PublishedOnFrom(_, _)
PublishedOnFrom(j, k) ==
    IF k > Len(published) THEN <<>>
    ELSE IF published[k].topic = outtopics[j]
         THEN <<published[k].avg>> \o PublishedOnFrom(j, k + 1)
         ELSE PublishedOnFrom(j, k + 1)

PublishedOn(j) ==
    PublishedOnFrom(j, 1)

\* a device of one channel with an empty window of n slots
AloneDevice(n) ==
    [outtopics |-> Arr(1, <<>>),
     lastvalues |-> Arr(1, Arr(n, NaN)),
     nextindex |-> Arr(1, 0)]

\* the device that the samples h, fed alone and in order, leave
RECURSIVE AloneFinal(_, _)
AloneFinal(h, st) ==
    IF h = <<>> THEN st
    ELSE AloneFinal(Tail(h), addLastValue(st, 0, Head(h)))

\* C16: cross-channel interleaving is safe.  When the messages of one
\* channel are delivered serially and the calls for different channels
\* interleave step by step, every channel none of whose calls is still
\* running has the window, the cursor and the sequence of published
\* averages that its own samples give when processed alone in delivery
\* order.
C16_CrossChannelSafe ==
    (serial /\ phase = "linked") =>
        \A j \in DOMAIN lastvalues :
           ~InFlight(j) =>
              LET n == SliceLen(lastvalues[j])
                  st == AloneFinal(Hist(j), AloneDevice(n))
              IN /\ lastvalues[j] = st.lastvalues[0]
                 /\ nextindex[j] = st.nextindex[0]
                 /\ PublishedOn(j) = ChannelAvgs(Hist(j), n)

\* C16 witness: serial per channel, 10 for channel 0 delivered before 20 for
\* channel 1 and then 20 for channel 0; the calls overlapped, channel 1
\* published first, and all three have returned
C16_Witness ==
    /\ serial
    /\ accepted = <<<<0, Fin(10, 1)>>, <<1, Fin(20, 1)>>, <<0, Fin(20, 1)>>>>
    /\ \A c \in 1..Len(calls) : ~Running(c)
    /\ Len(published) = 3
    /\ published[1].topic = outtopics[1]
    /\ PublishedOn(0) = <<Fin(10, 1), Fin(15, 1)>>
    /\ PublishedOn(1) = <<Fin(20, 1)>>

\* the calls for channel j whose payload parsed
AcceptedCalls(j) ==
    {c \in 1..Len(calls) : calls[c].key = j /\ calls[c].ok}

\* the two samples accepted on channel j were written to the same slot, the
\* cursor advanced once, one slot is valid, and the averages published for
\* the channel are those of neither serial order
LostUpdate(j) ==
    LET h == Hist(j)
        n == SliceLen(lastvalues[j])
    IN /\ ~InFlight(j)
       /\ n >= 2
       /\ Len(h) = 2
       /\ \E c1, c2 \in AcceptedCalls(j) :
             /\ c1 # c2
             /\ calls[c1].nextIndex = calls[c2].nextIndex
             /\ nextindex[j] = (calls[c1].nextIndex + 1) % n
       /\ Cardinality({k \in DOMAIN lastvalues[j] : ~IsNaN(lastvalues[j][k])}) = 1
       /\ PublishedOn(j) # ChannelAvgs(<<h[1], h[2]>>, n)
       /\ PublishedOn(j) # ChannelAvgs(<<h[2], h[1]>>, n)

\* C17: the update of one channel is not atomic.  With per-channel
\* serialization no channel reaches the state in which its two samples
\* went to the same slot, the cursor advanced once and the published
\* averages match no serial order; without it that state is reached.
C17_SerialExcludesLostUpdate ==
    serial => \A j \in DOMAIN lastvalues : ~LostUpdate(j)

\* C17 witness: no serialization, 10 and 20 for channel 0 of window 3 ran
\* concurrently; both read cursor 0, slot 0 holds one of them, slot 1 is
\* empty and the cursor is 1
C17_Witness ==
    /\ ~serial
    /\ 0 \in DOMAIN lastvalues
    /\ LostUpdate(0)
    /\ Hist(0) = <<Fin(10, 1), Fin(20, 1)>>
    /\ SliceLen(lastvalues[0]) = 3
    /\ nextindex[0] = 1
    /\ IsNaN(lastvalues[0][1])

\* the valid slots of a window: those that hold a sample, not NaN
ValidIn(w) ==
    {k \in DOMAIN w : ~IsNaN(w[k])}

MinOf(a, b) ==
    IF a < b THEN a ELSE b

\* C18: valid-slot count.  While the m samples accepted on a channel of
\* window length n are all non-NaN, the valid slots are exactly the slots
\* 0..min(m, n)-1; accepting such a sample makes no valid slot invalid; and
\* the count by which calculateAverage divides right after the write is at
\* least 1.
C18_ValidSlotCount ==
    /\ [](phase = "linked" =>
            \A i \in DOMAIN lastvalues :
               NoNaN(Hist(i)) =>
                  ValidIn(lastvalues[i]) =
                      0..(MinOf(Len(Hist(i)), SliceLen(lastvalues[i])) - 1))
    /\ [][(/\ AcceptedStep
           /\ NoNaN(Hist(lastCall'.key))
           /\ ~IsNaN(ParseFloat(lastCall'.payload).value))
          => LET i == lastCall'.key
             IN /\ ValidIn(lastvalues[i]) \subseteq ValidIn(lastvalues'[i])
                /\ averageLoop(lastvalues'[i], 0, SliceLen(lastvalues'[i]),
                               Fin(0, 1)).count >= 1]_vars

\* C18 witness: window 3; after 10 and 20 the valid slots were 0 and 1, and
\* after 30 and 40 the window has wrapped and all three slots are valid
C18_Witness ==
    /\ LastMsgAccepted
    /\ SliceLen(lastvalues[lastCall.key]) = 3
    /\ Hist(lastCall.key) = <<Fin(10, 1), Fin(20, 1), Fin(30, 1), Fin(40, 1)>>
    /\ ValidIn(lastvalues[lastCall.key]) = 0..2
    /\ nextindex[lastCall.key] = 1

====
